---- MODULE Spec2Model ----
(***************************************************************************)
(* Model of the valuation core of the Deribit options tool                 *)
(* (src/data_utils.py): calculate_greeks and calculate_iv_from_price.      *)
(*                                                                         *)
(* Python values are records tagged with their type.  A string is a        *)
(* sequence of tokens; the token "-" is the dash on which instrument names *)
(* are split and the token " " is the blank that snapshot strings are      *)
(* tested for.  Floats are fixed-point integers; the unit of each quantity *)
(* is stated where it is introduced.                                       *)
(***************************************************************************)
EXTENDS Integers, Sequences, FiniteSets, TLC

VARIABLES clock, args, out, prev, batch

vars == <<clock, args, out, prev, batch>>

(***************************************************************************)
(* Python values                                                           *)
(***************************************************************************)
None == [t |-> "NoneType"]
Str(s) == [t |-> "str", s |-> s]
Num(v) == [t |-> "float", v |-> v]
NaN == [t |-> "nan"]
\* a float that is none of the tabulated grid values
OffGrid == [t |-> "offgrid"]
Exception(type, msg) == [t |-> "exception", type |-> type, msg |-> msg]

\* a dict: its items, <<key, value>>, in insertion order; a list: its items
Dict(d) == [t |-> "dict", d |-> d]
List(l) == [t |-> "list", l |-> l]

IsNum(x) == x.t = "float"

\* truth value of a Python object, as `if x:` and `not x` take it
Truthy(x) ==
    CASE x.t = "NoneType" -> FALSE
      [] x.t = "str" -> Len(x.s) > 0
      [] x.t = "float" -> x.v # 0
      [] x.t = "dict" -> Len(x.d) > 0
      [] x.t = "list" -> Len(x.l) > 0
      [] OTHER -> TRUE

(***************************************************************************)
(* Strings: str.split('-'), the `in` test, concatenation                   *)
(***************************************************************************)
Dash == "-"
Blank == " "

\* index of the first dash of s, or 0 when s holds none
RECURSIVE FirstDash(_, _)
FirstDash(s, i) ==
    IF i > Len(s) THEN 0
    ELSE IF s[i] = Dash THEN i
    ELSE FirstDash(s, i + 1)

\* s.split('-'): the fields between the dashes; '' splits into ['']
RECURSIVE Split(_)
Split(s) ==
    LET d == FirstDash(s, 1) IN
    IF d = 0 THEN <<s>>
    ELSE <<SubSeq(s, 1, d - 1)>> \o Split(SubSeq(s, d + 1, Len(s)))

\* ' ' in s
HasBlank(s) == \E i \in 1..Len(s) : s[i] = Blank

\* '-'.join(fields): how an instrument name is written down
RECURSIVE Join(_)
Join(fields) ==
    IF Len(fields) = 0 THEN <<>>
    ELSE IF Len(fields) = 1 THEN fields[1]
    ELSE fields[1] \o <<Dash>> \o Join(Tail(fields))

(***************************************************************************)
(* Parsing: float(), datetime.strptime(), datetime.utcnow()                *)
(* An instant is a number of seconds since 2026-01-01 00:00:00.            *)
(***************************************************************************)
DateTime(secs) == [t |-> "datetime", secs |-> secs]

SecondsPerDay == 86400

\* float(field): the numeric literals of the model; any other text raises
FloatLiterals == {"1", "100", "117", "10000"}

FloatValue(tok) ==
    CASE tok = "1" -> 1
      [] tok = "100" -> 100
      [] tok = "117" -> 117
      [] tok = "10000" -> 10000

PyFloat(field) ==
    IF Len(field) = 1 /\ field[1] \in FloatLiterals
    THEN Num(FloatValue(field[1]))
    ELSE Exception("ValueError", "could not convert string to float")

\* %d%b%y dates and %Y-%m-%d dates: the day number of each date that exists
DayMonthYearDates == {"26MAR26", "27MAR26"}

DayOfDayMonthYear(tok) ==
    CASE tok = "26MAR26" -> 84
      [] tok = "27MAR26" -> 85

\* tokens of the shape DDMMMYY that name no day of the calendar
DayMonthYearShaped == DayMonthYearDates \cup {"31FEB26"}

IsoDates == {"2026-03-26", "2026-03-27", "2026-03-28"}

DayOfIso(tok) ==
    CASE tok = "2026-03-26" -> 84
      [] tok = "2026-03-27" -> 85
      [] tok = "2026-03-28" -> 86

\* %H:%M:%S
ClockTimes == {"00:00:00", "07:59:59", "08:00:00"}

SecondOfDay(tok) ==
    CASE tok = "00:00:00" -> 0
      [] tok = "07:59:59" -> 28799
      [] tok = "08:00:00" -> 28800

NoMatch == Exception("ValueError", "time data does not match format")
OutOfRange == Exception("ValueError", "day is out of range for month")

\* datetime.strptime(s, fmt) for the three formats the program uses
Strptime(s, fmt) ==
    CASE fmt = "%d%b%y %H:%M:%S" ->
           IF Len(s) = 3 /\ s[1] \in DayMonthYearShaped /\ s[2] = Blank
                         /\ s[3] \in ClockTimes
           THEN IF s[1] \in DayMonthYearDates
                THEN DateTime(DayOfDayMonthYear(s[1]) * SecondsPerDay
                              + SecondOfDay(s[3]))
                ELSE OutOfRange
           ELSE NoMatch
      [] fmt = "%Y-%m-%d %H:%M:%S" ->
           IF Len(s) = 3 /\ s[1] \in IsoDates /\ s[2] = Blank
                         /\ s[3] \in ClockTimes
           THEN DateTime(DayOfIso(s[1]) * SecondsPerDay + SecondOfDay(s[3]))
           ELSE NoMatch
      [] fmt = "%Y-%m-%d" ->
           IF Len(s) = 1 /\ s[1] \in IsoDates
           THEN DateTime(DayOfIso(s[1]) * SecondsPerDay)
           ELSE NoMatch

(***************************************************************************)
(* The pricing library (py_vollib), as the program sees it.                *)
(*                                                                         *)
(* Its results are tabulated on a grid: spot 100, strikes 1, 100, 117 and  *)
(* 10000, times to expiry of 1 s, 8 h and 32 h (td, in seconds; the        *)
(* program passes t = td / 31557600 years), volatilities 0.10 and 0.65     *)
(* (sigma, in units of 1e-4), rate 0.05.  The rows hold the library's      *)
(* double results in fixed point: delta, vega and theta in units of 1e-6,  *)
(* gamma in units of 1e-7, prices in units of 1e-3 (quote currency).       *)
(* Deep in or out of the money the double results carry no time value:     *)
(* the price is exactly the discounted intrinsic value, or exactly 0, at   *)
(* both volatilities.                                                      *)
(***************************************************************************)
GreeksTable ==
    { [flag |-> "c", K |-> 1, td |-> 1, sigma |-> 1000, delta |-> 1000000, gamma |-> 0, vega |-> 0, theta |-> 0],
      [flag |-> "p", K |-> 1, td |-> 1, sigma |-> 1000, delta |-> 0, gamma |-> 0, vega |-> 0, theta |-> 0],
      [flag |-> "c", K |-> 1, td |-> 1, sigma |-> 6500, delta |-> 1000000, gamma |-> 0, vega |-> 0, theta |-> 0],
      [flag |-> "p", K |-> 1, td |-> 1, sigma |-> 6500, delta |-> 0, gamma |-> 0, vega |-> 0, theta |-> 0],
      [flag |-> "c", K |-> 1, td |-> 28800, sigma |-> 1000, delta |-> 1000000, gamma |-> 0, vega |-> 0, theta |-> -45],
      [flag |-> "p", K |-> 1, td |-> 28800, sigma |-> 1000, delta |-> 0, gamma |-> 0, vega |-> 0, theta |-> 0],
      [flag |-> "c", K |-> 1, td |-> 28800, sigma |-> 6500, delta |-> 1000000, gamma |-> 0, vega |-> 0, theta |-> -45],
      [flag |-> "p", K |-> 1, td |-> 28800, sigma |-> 6500, delta |-> 0, gamma |-> 0, vega |-> 0, theta |-> 0],
      [flag |-> "c", K |-> 1, td |-> 115200, sigma |-> 1000, delta |-> 1000000, gamma |-> 0, vega |-> 0, theta |-> -137],
      [flag |-> "p", K |-> 1, td |-> 115200, sigma |-> 1000, delta |-> 0, gamma |-> 0, vega |-> 0, theta |-> 0],
      [flag |-> "c", K |-> 1, td |-> 115200, sigma |-> 6500, delta |-> 1000000, gamma |-> 0, vega |-> 0, theta |-> -137],
      [flag |-> "p", K |-> 1, td |-> 115200, sigma |-> 6500, delta |-> 0, gamma |-> 0, vega |-> 0, theta |-> 0],
      [flag |-> "c", K |-> 100, td |-> 1, sigma |-> 1000, delta |-> 500008, gamma |-> 857967387, vega |-> 71, theta |-> 11930],
      [flag |-> "p", K |-> 100, td |-> 1, sigma |-> 1000, delta |-> -499992, gamma |-> 857967387, vega |-> 71, theta |-> 11881],
      [flag |-> "c", K |-> 100, td |-> 1, sigma |-> 6500, delta |-> 500021, gamma |-> 324826486, vega |-> 71, theta |-> 77411],
      [flag |-> "p", K |-> 100, td |-> 1, sigma |-> 6500, delta |-> -499979, gamma |-> 324826486, vega |-> 71, theta |-> 77361],
      [flag |-> "c", K |-> 100, td |-> 28800, sigma |-> 1000, delta |-> 506627, gamma |-> 13202806, vega |-> 12051, theta |-> -110170],
      [flag |-> "p", K |-> 100, td |-> 28800, sigma |-> 1000, delta |-> -493373, gamma |-> 13202806, vega |-> 12051, theta |-> -105657],
      [flag |-> "c", K |-> 100, td |-> 28800, sigma |-> 6500, delta |-> 504844, gamma |-> 2031512, vega |-> 12051, theta |-> -703598],
      [flag |-> "p", K |-> 100, td |-> 28800, sigma |-> 6500, delta |-> -495156, gamma |-> 2031512, vega |-> 12051, theta |-> -699085],
      [flag |-> "c", K |-> 100, td |-> 115200, sigma |-> 1000, delta |-> 513254, gamma |-> 6599122, vega |-> 24090, theta |-> -127568],
      [flag |-> "p", K |-> 100, td |-> 115200, sigma |-> 1000, delta |-> -486746, gamma |-> 6599122, vega |-> 24090, theta |-> -113871],
      [flag |-> "c", K |-> 100, td |-> 115200, sigma |-> 6500, delta |-> 509687, gamma |-> 1015533, vega |-> 24097, theta |-> -790827],
      [flag |-> "p", K |-> 100, td |-> 115200, sigma |-> 6500, delta |-> -490313, gamma |-> 1015533, vega |-> 24097, theta |-> -777130],
      [flag |-> "c", K |-> 117, td |-> 1, sigma |-> 1000, delta |-> 0, gamma |-> 0, vega |-> 0, theta |-> 0],
      [flag |-> "p", K |-> 117, td |-> 1, sigma |-> 1000, delta |-> -1000000, gamma |-> 0, vega |-> 0, theta |-> -58],
      [flag |-> "c", K |-> 117, td |-> 1, sigma |-> 6500, delta |-> 0, gamma |-> 0, vega |-> 0, theta |-> 0],
      [flag |-> "p", K |-> 117, td |-> 1, sigma |-> 6500, delta |-> -1000000, gamma |-> 0, vega |-> 0, theta |-> -58],
      [flag |-> "c", K |-> 117, td |-> 28800, sigma |-> 1000, delta |-> 0, gamma |-> 0, vega |-> 0, theta |-> 0],
      [flag |-> "p", K |-> 117, td |-> 28800, sigma |-> 1000, delta |-> -1000000, gamma |-> 0, vega |-> 0, theta |-> 5280],
      [flag |-> "c", K |-> 117, td |-> 28800, sigma |-> 6500, delta |-> 0, gamma |-> 0, vega |-> 0, theta |-> 0],
      [flag |-> "p", K |-> 117, td |-> 28800, sigma |-> 6500, delta |-> -1000000, gamma |-> 0, vega |-> 0, theta |-> 5280],
      [flag |-> "c", K |-> 117, td |-> 115200, sigma |-> 1000, delta |-> 0, gamma |-> 0, vega |-> 0, theta |-> 0],
      [flag |-> "p", K |-> 117, td |-> 115200, sigma |-> 1000, delta |-> -1000000, gamma |-> 0, vega |-> 0, theta |-> 16026],
      [flag |-> "c", K |-> 117, td |-> 115200, sigma |-> 6500, delta |-> 35, gamma |-> 379, vega |-> 9, theta |-> -31],
      [flag |-> "p", K |-> 117, td |-> 115200, sigma |-> 6500, delta |-> -999965, gamma |-> 379, vega |-> 9, theta |-> 15994],
      [flag |-> "c", K |-> 10000, td |-> 1, sigma |-> 1000, delta |-> 0, gamma |-> 0, vega |-> 0, theta |-> 0],
      [flag |-> "p", K |-> 10000, td |-> 1, sigma |-> 1000, delta |-> -1000000, gamma |-> 0, vega |-> 0, theta |-> -4984],
      [flag |-> "c", K |-> 10000, td |-> 1, sigma |-> 6500, delta |-> 0, gamma |-> 0, vega |-> 0, theta |-> 0],
      [flag |-> "p", K |-> 10000, td |-> 1, sigma |-> 6500, delta |-> -1000000, gamma |-> 0, vega |-> 0, theta |-> -4984],
      [flag |-> "c", K |-> 10000, td |-> 28800, sigma |-> 1000, delta |-> 0, gamma |-> 0, vega |-> 0, theta |-> 0],
      [flag |-> "p", K |-> 10000, td |-> 28800, sigma |-> 1000, delta |-> -1000000, gamma |-> 0, vega |-> 0, theta |-> 451298],
      [flag |-> "c", K |-> 10000, td |-> 28800, sigma |-> 6500, delta |-> 0, gamma |-> 0, vega |-> 0, theta |-> 0],
      [flag |-> "p", K |-> 10000, td |-> 28800, sigma |-> 6500, delta |-> -1000000, gamma |-> 0, vega |-> 0, theta |-> 451298],
      [flag |-> "c", K |-> 10000, td |-> 115200, sigma |-> 1000, delta |-> 0, gamma |-> 0, vega |-> 0, theta |-> 0],
      [flag |-> "p", K |-> 10000, td |-> 115200, sigma |-> 1000, delta |-> -1000000, gamma |-> 0, vega |-> 0, theta |-> 1369707],
      [flag |-> "c", K |-> 10000, td |-> 115200, sigma |-> 6500, delta |-> 0, gamma |-> 0, vega |-> 0, theta |-> 0],
      [flag |-> "p", K |-> 10000, td |-> 115200, sigma |-> 6500, delta |-> -1000000, gamma |-> 0, vega |-> 0, theta |-> 1369707] }

\* the numerical Greek g of the library for one option: the outcomes a call
\* can have.  Off the grid the answer is some float the table does not hold.  A spot of None raises on S + dS; a spot <= 0 puts a negative
\* number under the library's log and sqrt, which raises in the pure-Python
\* build and gives nan in the compiled one.
LibGreek(g, flag, S, K, td, sigma) ==
    IF S.t = "NoneType"
    THEN {Exception("TypeError", "unsupported operand type(s) for +")}
    ELSE IF S.v <= 0
    THEN {Exception("ValueError", "math domain error"), NaN}
    ELSE LET rows == {r \in GreeksTable :
                         /\ S.v = 100
                         /\ r.flag = flag /\ r.K = K.v
                         /\ r.td = td /\ r.sigma = sigma}
         IN IF rows = {} THEN {OffGrid}
            ELSE {Num((CHOOSE r \in rows : TRUE)[g])}

\* black_scholes(flag, S, K, t, r, sigma) at the grid points whose price the
\* fixed point represents faithfully (strikes 1, 100, 10000), units of 1e-3
PriceTable ==
    { [flag |-> "c", K |-> 1, td |-> 1, sigma |-> 1000, price |-> 99000],
      [flag |-> "p", K |-> 1, td |-> 1, sigma |-> 1000, price |-> 0],
      [flag |-> "c", K |-> 1, td |-> 1, sigma |-> 6500, price |-> 99000],
      [flag |-> "p", K |-> 1, td |-> 1, sigma |-> 6500, price |-> 0],
      [flag |-> "c", K |-> 1, td |-> 28800, sigma |-> 1000, price |-> 99000],
      [flag |-> "p", K |-> 1, td |-> 28800, sigma |-> 1000, price |-> 0],
      [flag |-> "c", K |-> 1, td |-> 28800, sigma |-> 6500, price |-> 99000],
      [flag |-> "p", K |-> 1, td |-> 28800, sigma |-> 6500, price |-> 0],
      [flag |-> "c", K |-> 1, td |-> 115200, sigma |-> 1000, price |-> 99000],
      [flag |-> "p", K |-> 1, td |-> 115200, sigma |-> 1000, price |-> 0],
      [flag |-> "c", K |-> 1, td |-> 115200, sigma |-> 6500, price |-> 99000],
      [flag |-> "p", K |-> 1, td |-> 115200, sigma |-> 6500, price |-> 0],
      [flag |-> "c", K |-> 100, td |-> 1, sigma |-> 1000, price |-> 1],
      [flag |-> "p", K |-> 100, td |-> 1, sigma |-> 1000, price |-> 1],
      [flag |-> "c", K |-> 100, td |-> 1, sigma |-> 6500, price |-> 5],
      [flag |-> "p", K |-> 100, td |-> 1, sigma |-> 6500, price |-> 5],
      [flag |-> "c", K |-> 100, td |-> 28800, sigma |-> 1000, price |-> 123],
      [flag |-> "p", K |-> 100, td |-> 28800, sigma |-> 1000, price |-> 118],
      [flag |-> "c", K |-> 100, td |-> 28800, sigma |-> 6500, price |-> 786],
      [flag |-> "p", K |-> 100, td |-> 28800, sigma |-> 6500, price |-> 781],
      [flag |-> "c", K |-> 100, td |-> 115200, sigma |-> 1000, price |-> 250],
      [flag |-> "p", K |-> 100, td |-> 115200, sigma |-> 1000, price |-> 232],
      [flag |-> "c", K |-> 100, td |-> 115200, sigma |-> 6500, price |-> 1576],
      [flag |-> "p", K |-> 100, td |-> 115200, sigma |-> 6500, price |-> 1557],
      [flag |-> "c", K |-> 10000, td |-> 1, sigma |-> 1000, price |-> 0],
      [flag |-> "p", K |-> 10000, td |-> 1, sigma |-> 1000, price |-> 9900000],
      [flag |-> "c", K |-> 10000, td |-> 1, sigma |-> 6500, price |-> 0],
      [flag |-> "p", K |-> 10000, td |-> 1, sigma |-> 6500, price |-> 9900000],
      [flag |-> "c", K |-> 10000, td |-> 28800, sigma |-> 1000, price |-> 0],
      [flag |-> "p", K |-> 10000, td |-> 28800, sigma |-> 1000, price |-> 9899544],
      [flag |-> "c", K |-> 10000, td |-> 28800, sigma |-> 6500, price |-> 0],
      [flag |-> "p", K |-> 10000, td |-> 28800, sigma |-> 6500, price |-> 9899544],
      [flag |-> "c", K |-> 10000, td |-> 115200, sigma |-> 1000, price |-> 0],
      [flag |-> "p", K |-> 10000, td |-> 115200, sigma |-> 1000, price |-> 9898175],
      [flag |-> "c", K |-> 10000, td |-> 115200, sigma |-> 6500, price |-> 0],
      [flag |-> "p", K |-> 10000, td |-> 115200, sigma |-> 6500, price |-> 9898175] }

\* K * exp(-r * t), units of 1e-3
DiscountedStrike(K, td) ==
    CASE K = 1 /\ td = 1 -> 1000
      [] K = 1 /\ td = 28800 -> 1000
      [] K = 1 /\ td = 115200 -> 1000
      [] K = 100 /\ td = 1 -> 100000
      [] K = 100 /\ td = 28800 -> 99995
      [] K = 100 /\ td = 115200 -> 99982
      [] K = 117 /\ td = 1 -> 117000
      [] K = 117 /\ td = 28800 -> 116995
      [] K = 117 /\ td = 115200 -> 116979
      [] K = 10000 /\ td = 1 -> 10000000
      [] K = 10000 /\ td = 28800 -> 9999544
      [] K = 10000 /\ td = 115200 -> 9998175

(***************************************************************************)
(* How a call ends                                                         *)
(***************************************************************************)
Return(v) == [kind |-> "return", value |-> v]
Raise(e) == [kind |-> "raise", exc |-> e]

\* the locals a call had bound when it ended (None: not bound)
NoFrame == [strike |-> None, option_type |-> None, expiry_dt |-> None,
            now |-> None]

(***************************************************************************)
(* The steps shared by calculate_greeks and calculate_iv_from_price        *)
(***************************************************************************)
FieldCount == 4

\* a variant that also takes a lowercase class letter for a call
option_type_AnyCase(parts) ==
    IF parts[4] \in {<<"C">>, <<"c">>} THEN Str(<<"c">>) ELSE Str(<<"p">>)

\* a variant with the two branches exchanged
option_type_Swapped(parts) ==
    IF parts[4] = <<"C">> THEN Str(<<"p">>) ELSE Str(<<"c">>)

\* option_type = 'c' if parts[3] == 'C' else 'p'
option_type(parts) == IF parts[4] = <<"C">> THEN Str(<<"c">>) ELSE Str(<<"p">>)

\* expiry_str = parts[1] + " 08:00:00"
expiry_str(parts) == parts[2] \o <<Blank, "08:00:00">>

\* a variant that reads only a date and time, and the clock otherwise
now_DateTimeOnly(snapshot_date_str, utcnow) ==
    IF Truthy(snapshot_date_str) /\ HasBlank(snapshot_date_str.s)
    THEN Strptime(snapshot_date_str.s, "%Y-%m-%d %H:%M:%S")
    ELSE utcnow

\* now: the snapshot string when it is given and not empty, else utcnow()
now(snapshot_date_str, utcnow) ==
    IF Truthy(snapshot_date_str)
    THEN IF HasBlank(snapshot_date_str.s)
         THEN Strptime(snapshot_date_str.s, "%Y-%m-%d %H:%M:%S")
         ELSE Strptime(snapshot_date_str.s, "%Y-%m-%d")
    ELSE utcnow

\* time_diff = (expiry_dt - now).total_seconds()
time_diff(expiry_dt, now_dt) == expiry_dt.secs - now_dt.secs

\* a variant that lets the expiry instant itself pass as not expired
ExpiredStrict(td) == td < 0

\* if time_diff <= 0
Expired(td) == td <= 0

(***************************************************************************)
(* calculate_greeks                                                        *)
(***************************************************************************)
InvalidFormat ==
    [delta |-> Num(0), gamma |-> Num(0), vega |-> Num(0), theta |-> Num(0),
     error |-> <<"Invalid instrument format">>]

ExpiredResult ==
    [delta |-> Num(0), gamma |-> Num(0), vega |-> Num(0), theta |-> Num(0),
     expired |-> TRUE]

DateParseError(e) ==
    [delta |-> Num(0), gamma |-> Num(0), vega |-> Num(0), theta |-> Num(0),
     error |-> <<"Date parse error: ", e.msg>>]

InvalidIV ==
    [delta |-> Num(0), gamma |-> Num(0), vega |-> Num(0), theta |-> Num(0),
     error |-> <<"Invalid IV">>]

\* a variant that drops the flag of a failed computation
GreeksCalcErrorUnflagged(e) ==
    [delta |-> Num(0), gamma |-> Num(0), vega |-> Num(0), theta |-> Num(0)]

GreeksCalcError(e) ==
    [delta |-> Num(0), gamma |-> Num(0), vega |-> Num(0), theta |-> Num(0),
     error |-> <<"Greeks calc error: ", e.msg>>]

\* a variant that forgets the sign test
IvRejectedFalsy(iv) == ~Truthy(iv)

\* if not iv or iv <= 0
IvRejected(iv) == ~Truthy(iv) \/ (IsNum(iv) /\ iv.v <= 0)

\* sigma = iv / 100: iv is a percentage, sigma is in units of 1e-4
sigma(iv) == iv.v * 100

\* round(x, ndigits) of a fixed-point x whose unit is 1/m of the last digit
\* kept: to the nearest, ties to even; round(nan, n) is nan, and a float off
\* the grid stays off the grid
Round(x, m) ==
    IF x.t # "float" THEN x
    ELSE LET q == x.v \div m
             r == x.v % m
         IN Num(IF 2 * r > m \/ (2 * r = m /\ q % 2 = 1) THEN q + 1 ELSE q)

\* the try block of the four library calls: the dict is built in the order
\* delta, gamma, vega, theta, and the first call that raises ends it.
\* Returned units: delta, vega, theta 1e-4, gamma 1e-6.
GreeksOf(lib) ==
    CASE lib.delta.t = "exception" -> GreeksCalcError(lib.delta)
      [] lib.gamma.t = "exception" -> GreeksCalcError(lib.gamma)
      [] lib.vega.t = "exception" -> GreeksCalcError(lib.vega)
      [] lib.theta.t = "exception" -> GreeksCalcError(lib.theta)
      [] OTHER -> [delta |-> Round(lib.delta, 100),
                   gamma |-> Round(lib.gamma, 10),
                   vega |-> Round(lib.vega, 100),
                   theta |-> Round(lib.theta, 100)]

\* what the library answers to the four calls of one option
LibGreeks(flag, S, K, td, sig, bld) ==
    [g \in {"delta", "gamma", "vega", "theta"} |->
        LET outs == LibGreek(g, flag, S, K, td, sig) IN
        IF Cardinality(outs) = 1 THEN CHOOSE o \in outs : TRUE
        ELSE IF bld = "pure" THEN CHOOSE o \in outs : o.t = "exception"
        ELSE CHOOSE o \in outs : o.t # "exception"]

\* calculate_greeks(instrument, spot_price, iv, snapshot_date_str), called at
\* the instant utcnow with the library build bld
calculate_greeks(instrument, spot_price, iv, snapshot_date_str, utcnow, bld) ==
    LET parts == Split(instrument.s) IN
    IF Len(parts) # FieldCount
    THEN [ret |-> Return(InvalidFormat), frame |-> NoFrame]
    ELSE
    LET strike == PyFloat(parts[3]) IN
    IF strike.t = "exception"
    THEN [ret |-> Raise(strike), frame |-> NoFrame]
    ELSE
    LET otype == option_type(parts)
        f1 == [NoFrame EXCEPT !.strike = strike, !.option_type = otype]
        expiry_dt == Strptime(expiry_str(parts), "%d%b%y %H:%M:%S")
    IN
    IF expiry_dt.t = "exception"
    THEN [ret |-> Return(DateParseError(expiry_dt)), frame |-> f1]
    ELSE
    LET now_dt == now(snapshot_date_str, utcnow)
        f2 == [f1 EXCEPT !.expiry_dt = expiry_dt]
    IN
    IF now_dt.t = "exception"
    THEN [ret |-> Return(DateParseError(now_dt)), frame |-> f2]
    ELSE
    LET td == time_diff(expiry_dt, now_dt)
        f3 == [f2 EXCEPT !.now = now_dt]
    IN
    IF Expired(td)
    THEN [ret |-> Return(ExpiredResult), frame |-> f3]
    ELSE IF IvRejected(iv)
    THEN [ret |-> Return(InvalidIV), frame |-> f3]
    ELSE [ret |-> Return(GreeksOf(LibGreeks(otype.s[1], spot_price, strike, td,
                                            sigma(iv), bld))),
          frame |-> f3]

(***************************************************************************)
(* calculate_iv_from_price                                                 *)
(***************************************************************************)
\* (a * b) \div c without an intermediate product beyond 32 bits
MulDiv(a, b, c) == (a \div c) * b + ((a % c) * b) \div c

\* a variant that forgets the multiplication by the spot price
option_price_usd_NoSpot(option_price, spot_price) ==
    IF option_price.t = "NoneType" \/ spot_price.t = "NoneType"
    THEN Exception("TypeError", "unsupported operand type(s) for *")
    ELSE Num(option_price.v \div 10000)

\* option_price_usd = option_price * spot_price.  option_price is in units
\* of 1e-7 (underlying), spot_price in units of 1, the product in units of
\* 1e-3 (quote currency); None as an operand raises.
option_price_usd(option_price, spot_price) ==
    IF option_price.t = "NoneType" \/ spot_price.t = "NoneType"
    THEN Exception("TypeError", "unsupported operand type(s) for *")
    ELSE Num(MulDiv(option_price.v, spot_price.v, 10000))

\* implied_volatility(price, S, K, t, r, flag) of the library.  ulp is the
\* sign of the rounding error the double price carries below the model's
\* resolution (a product with 0 is exact).  The library raises below the
\* intrinsic value and at or above the maximum price, answers 0 for a price
\* without time value, and otherwise inverts black_scholes.
implied_volatility(price, ulp, S, K, td, flag) ==
    IF td \notin {1, 28800, 115200} THEN OffGrid
    ELSE
    LET ds == DiscountedStrike(K.v, td)
        s1000 == S.v * 1000
        intrinsic == IF flag = "c" THEN (IF s1000 > ds THEN s1000 - ds ELSE 0)
                     ELSE (IF ds > s1000 THEN ds - s1000 ELSE 0)
        max_price == IF flag = "c" THEN s1000 ELSE ds
        e == IF price.v = 0 THEN 0 ELSE ulp
        rows == {r \in PriceTable : /\ S.v = 100
                                    /\ r.flag = flag /\ r.K = K.v
                                    /\ r.td = td /\ r.price = price.v}
    IN
    IF price.v < intrinsic \/ (price.v = intrinsic /\ e < 0)
    THEN Exception("BelowIntrinsicException", "below intrinsic")
    ELSE IF price.v >= max_price
    THEN Exception("AboveMaximumException", "above maximum")
    ELSE IF price.v = intrinsic
    THEN (IF e = 0 THEN Num(0) ELSE OffGrid)
    ELSE IF rows # {} THEN Num((CHOOSE r \in rows : TRUE).sigma)
    ELSE OffGrid

\* iv * 100: a volatility in units of 1e-4 as a percentage in units of 1e-4
Percent(vol) == IF IsNum(vol) THEN Num(vol.v * 100) ELSE vol

\* calculate_iv_from_price(instrument, spot_price, option_price,
\* snapshot_date_str), called at the instant utcnow
calculate_iv_from_price(instrument, spot_price, option_price, snapshot_date_str, utcnow, ulp) ==
    LET parts == Split(instrument.s) IN
    IF Len(parts) # FieldCount
    THEN [ret |-> Return(None), frame |-> NoFrame]
    ELSE
    LET strike == PyFloat(parts[3]) IN
    IF strike.t = "exception"
    THEN [ret |-> Raise(strike), frame |-> NoFrame]
    ELSE
    LET otype == option_type(parts)
        f1 == [NoFrame EXCEPT !.strike = strike, !.option_type = otype]
        expiry_dt == Strptime(expiry_str(parts), "%d%b%y %H:%M:%S")
    IN
    IF expiry_dt.t = "exception"
    THEN [ret |-> Return(None), frame |-> f1]
    ELSE
    LET now_dt == now(snapshot_date_str, utcnow)
        f2 == [f1 EXCEPT !.expiry_dt = expiry_dt]
    IN
    IF now_dt.t = "exception"
    THEN [ret |-> Return(None), frame |-> f2]
    ELSE
    LET td == time_diff(expiry_dt, now_dt)
        f3 == [f2 EXCEPT !.now = now_dt]
    IN
    IF Expired(td)
    THEN [ret |-> Return(None), frame |-> f3]
    ELSE
    LET usd == option_price_usd(option_price, spot_price) IN
    IF usd.t = "exception"
    THEN [ret |-> Raise(usd), frame |-> f3]
    ELSE
    LET vol == implied_volatility(usd, ulp, spot_price, strike, td,
                                  otype.s[1])
    IN
    IF vol.t = "exception"
    THEN [ret |-> Return(None), frame |-> f3]
    ELSE [ret |-> Return(Percent(vol)), frame |-> f3]

(***************************************************************************)
(* The arguments the callers pass                                          *)
(***************************************************************************)
\* the most dash-separated fields an instrument name of the model has
MaxFields == 5

ExpiryFields == {<<"27MAR26">>, <<"26MAR26">>, <<"31FEB26">>, <<>>}
StrikeFields == {<<"1">>, <<"100">>, <<"117">>, <<"10000">>, <<"abc">>, <<>>}
ClassFields == {<<"C">>, <<"P">>, <<"c">>}

\* names of four fields, UNDERLYING-EXPIRY-STRIKE-CLASS
FourFields ==
    {<<<<"BTC">>, e, k, c>> : e \in ExpiryFields, k \in StrikeFields,
                               c \in ClassFields}

\* names of any other number of fields, the empty name included
OtherFields ==
    LET long == [i \in 1..(MaxFields + 1) |->
                    IF i = 1 THEN <<"BTC">>
                    ELSE IF i = 2 THEN <<"27MAR26">>
                    ELSE IF i = 3 THEN <<"100">>
                    ELSE IF i = 4 THEN <<"C">>
                    ELSE <<"X">>]
    IN {SubSeq(long, 1, n) : n \in (0..MaxFields) \ {FieldCount}}

Instruments == {Str(Join(fs)) : fs \in FourFields \cup OtherFields}

Spots == {None, Num(0), Num(-100), Num(100)}

\* mark_iv of a ticker, a percentage
IVs == {None, Num(0), Num(-5), Num(10), Num(65)}

Snapshots ==
    {None, Str(<<>>), Str(<<"2026-03-26">>), Str(<<"2026-03-28">>),
     Str(<<"2026-03-27", Blank, "07:59:59">>),
     Str(<<"2026-03-27", Blank, "08:00:00">>),
     Str(<<"yesterday">>), Str(<<"2026-03-27", Blank, "noon">>),
     Str(<<"2026-03-27T08:00:00">>)}

\* the instants at which the model's calls happen: 2026-03-26 00:00:00,
\* 2026-03-27 07:59:59 and 2026-03-27 08:00:00
ClockInstants ==
    <<DateTime(84 * SecondsPerDay), DateTime(85 * SecondsPerDay + 28799),
      DateTime(85 * SecondsPerDay + 28800)>>

\* the library build installed: pure Python, or compiled
Builds == {"pure", "jit"}

GreeksCalls ==
    [op : {"calculate_greeks"}, instrument : Instruments, spot_price : Spots,
     iv : IVs, snapshot_date_str : Snapshots, build : Builds]

\* P / spot: a price in quote currency (units of 1e-3) as a price in the
\* underlying (units of 1e-7)
PriceInUnderlying(P, spot) == MulDiv(P, 10000, spot)

\* option prices: every tabulated price at spot 100, and one above every
\* maximum
OptionPrices ==
    {None, Num(PriceInUnderlying(10100000, 100))}
    \cup {Num(PriceInUnderlying(r.price, 100)) : r \in PriceTable}

\* the sign of the rounding error of option_price * spot_price
Ulps == {-1, 0, 1}

IVCalls ==
    [op : {"calculate_iv_from_price"}, instrument : Instruments,
     spot_price : Spots, option_price : OptionPrices,
     snapshot_date_str : Snapshots, ulp : Ulps]

(***************************************************************************)
(* The state machine: one call of one of the two functions, made at some   *)
(* instant.  args is the call and what it runs on; out is how it ended.    *)
(***************************************************************************)
Pending == [kind |-> "pending"]

\* no batch function of main.py is running
NoBatch == [pc |-> "none"]

InitGreeks ==
    /\ clock = ClockInstants[1]
    /\ args \in GreeksCalls
    /\ out = Pending
    /\ prev = Pending
    /\ batch = NoBatch

\* time passes before the call is made
Tick ==
    /\ out = Pending
    /\ \E i \in 1..(Len(ClockInstants) - 1) :
          clock = ClockInstants[i] /\ clock' = ClockInstants[i + 1]
    /\ UNCHANGED <<args, out, prev, batch>>

CallGreeks ==
    /\ out = Pending
    /\ args.op = "calculate_greeks"
    /\ LET call == calculate_greeks(args.instrument, args.spot_price, args.iv,
                                    args.snapshot_date_str, clock, args.build)
       IN out' = [kind |-> "done", utcnow |-> clock, ret |-> call.ret,
                  frame |-> call.frame]
    /\ UNCHANGED <<clock, args, prev, batch>>

NextGreeks == Tick \/ CallGreeks

SpecGreeks == InitGreeks /\ [][NextGreeks]_vars

InitIV ==
    /\ clock = ClockInstants[1]
    /\ args \in IVCalls
    /\ out = Pending
    /\ prev = Pending
    /\ batch = NoBatch

CallIV ==
    /\ out = Pending
    /\ args.op = "calculate_iv_from_price"
    /\ LET call == calculate_iv_from_price(args.instrument, args.spot_price,
                                           args.option_price,
                                           args.snapshot_date_str, clock,
                                           args.ulp)
       IN out' = [kind |-> "done", utcnow |-> clock, ret |-> call.ret,
                  frame |-> call.frame]
    /\ UNCHANGED <<clock, args, prev, batch>>

NextIV == Tick \/ CallIV

SpecIV == InitIV /\ [][NextIV]_vars

Init == InitGreeks \/ InitIV

Next == Tick \/ CallGreeks \/ CallIV

Spec == Init /\ [][Next]_vars

\* the same call is made a second time, with the same arguments: the first
\* result is kept in prev and the call is pending again
Repeat ==
    /\ out.kind = "done"
    /\ prev = Pending
    /\ prev' = out
    /\ out' = Pending
    /\ UNCHANGED <<clock, args, batch>>

\* the calls that are made twice: every instrument and every as-of, with a
\* spot, an iv and an option price that are absent or usable
TwiceCalls ==
    {c \in GreeksCalls :
        c.spot_price \in {None, Num(100)} /\ c.iv \in {None, Num(65)}}
    \cup {c \in IVCalls :
        /\ c.spot_price \in {None, Num(100)}
        /\ c.ulp = 0
        /\ c.option_price \in {None, Num(0), Num(PriceInUnderlying(1576, 100)),
                                Num(PriceInUnderlying(10100000, 100))}}

InitTwice ==
    /\ clock = ClockInstants[1]
    /\ args \in TwiceCalls
    /\ out = Pending
    /\ prev = Pending
    /\ batch = NoBatch

NextTwice == Tick \/ CallGreeks \/ CallIV \/ Repeat

SpecTwice == InitTwice /\ [][NextTwice]_vars

(***************************************************************************)
(* Vocabulary of the properties.  These read the call off its arguments,   *)
(* independently of the functions' own parsing.                            *)
(***************************************************************************)
GreekKeys == {"delta", "gamma", "vega", "theta"}

Done == out.kind = "done"
GreeksDone == Done /\ args.op = "calculate_greeks"
IVDone == Done /\ args.op = "calculate_iv_from_price"
Returned == out.ret.kind = "return"

\* the fields the instrument name was written with
NameFields ==
    CHOOSE fs \in FourFields \cup OtherFields : args.instrument = Str(Join(fs))

HasFourFields == Len(NameFields) = 4
StrikeIsNumber == HasFourFields /\ NameFields[3] \in {<<l>> : l \in FloatLiterals}
ExpiryIsDate == HasFourFields /\ NameFields[2] \in {<<d>> : d \in DayMonthYearDates}
WellFormed == StrikeIsNumber /\ ExpiryIsDate

\* 08:00:00 on the date of the expiry field
ExpiryInstant == DayOfDayMonthYear(NameFields[2][1]) * 86400 + 8 * 3600

\* the as-of argument: a date, a date and a time, left out, or something else
AsOfIsDate ==
    /\ args.snapshot_date_str.t = "str"
    /\ \E d \in IsoDates : args.snapshot_date_str.s = <<d>>
AsOfIsDateTime ==
    /\ args.snapshot_date_str.t = "str"
    /\ \E d \in IsoDates, c \in ClockTimes :
          args.snapshot_date_str.s = <<d, Blank, c>>
AsOfOmitted == args.snapshot_date_str = None
AsOfEmpty == args.snapshot_date_str = Str(<<>>)
AsOfGiven == AsOfIsDate \/ AsOfIsDateTime \/ AsOfOmitted

\* the as-of instant of a call whose as-of is given or left out
AsOfInstant ==
    IF AsOfOmitted THEN out.utcnow.secs
    ELSE IF AsOfIsDate THEN DayOfIso(args.snapshot_date_str.s[1]) * 86400
    ELSE DayOfIso(args.snapshot_date_str.s[1]) * 86400
         + SecondOfDay(args.snapshot_date_str.s[3])

\* the call is on a well-formed instrument before (Live) or not before
\* (Lapsed) its expiry
Live == WellFormed /\ AsOfGiven /\ AsOfInstant < ExpiryInstant
Lapsed == WellFormed /\ AsOfGiven /\ AsOfInstant >= ExpiryInstant

IvAbsentOrNonPositive ==
    args.iv = None \/ (args.iv.t = "float" /\ args.iv.v <= 0)

ZeroGreeks(v) == \A g \in GreekKeys : v[g] = Num(0)
Flags(v) == DOMAIN v \ GreekKeys

\* all four Greeks zero under exactly the flag f
ZeroedWith(v, f) == DOMAIN v = GreekKeys \cup {f} /\ ZeroGreeks(v)

(***************************************************************************)
(* deribit_api.py.  An expression evaluates to a value or to the exception *)
(* it raises; the operations below pass on the exception of an operand.    *)
(* Except is `try: ... except Exception: return default`.                  *)
(***************************************************************************)
Bool(b) == [t |-> "bool", b |-> b]
Raised(v) == v.t = "exception"
Except(v, default) == IF Raised(v) THEN default ELSE v

\* how a function ends on the value of its last expression
Outcome(v) == IF Raised(v) THEN Raise(v) ELSE Return(v)

Keys(x) == {x.d[i][1] : i \in 1..Len(x.d)}
Lookup(x, key) == x.d[CHOOSE i \in 1..Len(x.d) : x.d[i][1] = key][2]

\* x[key]
Subscript(x, key) ==
    CASE Raised(x) -> x
      [] x.t = "dict" ->
           IF key \in Keys(x) THEN Lookup(x, key)
           ELSE Exception("KeyError", key)
      [] x.t \in {"list", "str"} ->
           Exception("TypeError", "indices must be integers")
      [] OTHER -> Exception("TypeError", "object is not subscriptable")

\* x.get(key, default)
GetMethod(x, key, default) ==
    CASE Raised(x) -> x
      [] x.t = "dict" -> IF key \in Keys(x) THEN Lookup(x, key) ELSE default
      [] OTHER -> Exception("AttributeError", "object has no attribute 'get'")

\* key in x
Contains(key, x) ==
    CASE Raised(x) -> x
      [] x.t = "dict" -> Bool(key \in Keys(x))
      [] x.t = "list" -> Bool(\E i \in 1..Len(x.l) : x.l[i] = Str(<<key>>))
      [] x.t = "str" -> Bool(\E i \in 1..Len(x.s) : x.s[i] = key)
      [] OTHER -> Exception("TypeError", "argument is not iterable")

\* the items `for i in x` goes through, as a list
Iter(x) ==
    CASE Raised(x) -> x
      [] x.t = "list" -> x
      [] x.t = "dict" -> List([i \in 1..Len(x.d) |-> Str(<<x.d[i][1]>>)])
      [] x.t = "str" -> List([i \in 1..Len(x.s) |-> Str(<<x.s[i]>>)])
      [] OTHER -> Exception("TypeError", "object is not iterable")

UpperToken(tok) ==
    CASE tok = "btc" -> "BTC" [] tok = "eth" -> "ETH" [] OTHER -> tok
LowerToken(tok) ==
    CASE tok = "BTC" -> "btc" [] tok = "ETH" -> "eth" [] OTHER -> tok

\* currency.upper(), currency.lower()
Upper(x) ==
    IF x.t = "str" THEN Str([i \in 1..Len(x.s) |-> UpperToken(x.s[i])])
    ELSE Exception("AttributeError", "object has no attribute 'upper'")
Lower(x) ==
    IF x.t = "str" THEN Str([i \in 1..Len(x.s) |-> LowerToken(x.s[i])])
    ELSE Exception("AttributeError", "object has no attribute 'lower'")

\* a - b
Minus(a, b) ==
    CASE Raised(a) -> a
      [] Raised(b) -> b
      [] a.t = "float" /\ b.t = "float" -> Num(a.v - b.v)
      [] OTHER -> Exception("TypeError", "unsupported operand type(s) for -")

\* a response body that is no JSON text
Malformed == [t |-> "malformed"]

\* what the network gives to a request: no response, or a response
NoResponse == [kind |-> "error"]
Response(status, body) == [kind |-> "response", status |-> status, body |-> body]

\* requests.get(url, params); raise_for_status(); json()
Json(http) ==
    IF http.kind = "error"
    THEN Exception("ConnectionError", "connection failed")
    ELSE IF http.status >= 400
    THEN Exception("HTTPError", "error status")
    ELSE IF http.body = Malformed
    THEN Exception("JSONDecodeError", "expecting value")
    ELSE http.body

(***************************************************************************)
(* DeribitClient: each method on its arguments and on what the network     *)
(* gives to its one request.                                               *)
(***************************************************************************)
\* dt = datetime.strptime(date_str, "%Y-%m-%d"), before the try
fetch_historical_prices(instrument, date_str, http) ==
    LET dt == IF date_str.t = "str" THEN Strptime(date_str.s, "%Y-%m-%d")
              ELSE Exception("TypeError", "strptime() argument 1 must be str")
        result == GetMethod(Json(http), "result", None)
        status == GetMethod(result, "status", None)
        close == GetMethod(result, "close", None)
        try == IF Raised(result) THEN result
               ELSE IF ~Truthy(result) THEN None
               ELSE IF Raised(status) THEN status
               ELSE IF status # Str(<<"ok">>) THEN None
               ELSE IF Truthy(close) THEN result
               ELSE None
    IN IF Raised(dt) THEN Raise(dt) ELSE Return(Except(try, None))

\* [i['instrument_name'] for i in instruments]
RECURSIVE InstrumentNames(_, _)
InstrumentNames(items, i) ==
    IF i > Len(items) THEN List(<<>>)
    ELSE LET name == Subscript(items[i], "instrument_name")
             rest == InstrumentNames(items, i + 1)
         IN IF Raised(name) THEN name
            ELSE IF Raised(rest) THEN rest
            ELSE List(<<name>> \o rest.l)

\* currency.upper() builds params, before the try
get_instruments(currency, expired, http) ==
    LET instruments == Iter(Subscript(Json(http), "result"))
        names == IF Raised(instruments) THEN instruments
                 ELSE InstrumentNames(instruments.l, 1)
    IN IF Raised(Upper(currency)) THEN Raise(Upper(currency))
       ELSE Return(Except(names, List(<<>>)))

\* return response.json()['result'], or None
ResultOrNone(http) == Except(Subscript(Json(http), "result"), None)

get_ticker(instrument, http) == Return(ResultOrNone(http))

\* f"{currency.lower()}_usd" builds params, before the try
get_index_price(currency, http) ==
    LET price == Subscript(Subscript(Json(http), "result"), "index_price")
    IN IF Raised(Lower(currency)) THEN Raise(Lower(currency))
       ELSE Return(Except(price, None))

\* currency.upper() builds params, before the try
get_last_settlements_by_currency(currency, search_start_timestamp, count, http) ==
    IF Raised(Upper(currency)) THEN Raise(Upper(currency))
    ELSE Return(ResultOrNone(http))

get_order_book(instrument, depth, http) == Return(ResultOrNone(http))

\* result = response.json().get('result', {}); result.get('trades', [])
TradesOrEmpty(http) ==
    LET result == GetMethod(Json(http), "result", Dict(<<>>))
    IN Except(GetMethod(result, "trades", List(<<>>)), List(<<>>))

get_last_trades_by_instrument(instrument, start_timestamp, end_timestamp, count, http) ==
    Return(TradesOrEmpty(http))

\* currency.upper() builds params, before the try
get_last_trades_by_currency(currency, start_timestamp, end_timestamp, count, http) ==
    IF Raised(Upper(currency)) THEN Raise(Upper(currency))
    ELSE Return(TradesOrEmpty(http))

OneHourMs == 3600000

\* for s in settlements['settlements']: the first within one hour
RECURSIVE WithinOneHour(_, _, _)
WithinOneHour(items, i, timestamp) ==
    IF i > Len(items) THEN None
    ELSE LET s == items[i]
             diff == Minus(Subscript(s, "timestamp"), timestamp)
         IN IF Raised(diff) THEN diff
            ELSE IF (IF diff.v < 0 THEN -diff.v ELSE diff.v) < OneHourMs
            THEN GetMethod(s, "index_price", None)
            ELSE WithinOneHour(items, i + 1, timestamp)

\* no try of its own
get_historical_index_price(currency, timestamp, http) ==
    LET call == get_last_settlements_by_currency(currency, timestamp,
                                                 Num(10), http)
        settlements == call.value
        found == Contains("settlements", settlements)
        items == Iter(Subscript(settlements, "settlements"))
    IN IF call.kind = "raise" THEN call
       ELSE IF ~Truthy(settlements) THEN Return(None)
       ELSE IF Raised(found) THEN Raise(found)
       ELSE IF ~found.b THEN Return(None)
       ELSE IF Raised(items) THEN Raise(items)
       ELSE Outcome(WithinOneHour(items.l, 1, timestamp))

(***************************************************************************)
(* One call of a DeribitClient method: its arguments and the network's     *)
(* answer are drawn at the start.                                          *)
(***************************************************************************)
Currencies == {Str(<<"btc">>), None}
DateStrings == {Str(<<"2026-03-26">>), Str(<<"yesterday">>), None}
\* milliseconds, counted from the instant asked for
Timestamps == {Num(0), None}
ClientInstruments == {Str(Join(<<<<"BTC">>, <<"27MAR26">>, <<"100">>, <<"C">>>>))}

Settlement(ms) ==
    Dict(<<<<"timestamp", Num(ms)>>, <<"index_price", Num(100)>>>>)

\* what `result` is in a decoded body
Results ==
    {None, Num(5), Dict(<<>>), List(<<>>), List(<<Dict(<<>>)>>),
     List(<<Dict(<<<<"instrument_name", Str(<<"BTC">>)>>>>)>>),
     Dict(<<<<"index_price", Num(100)>>>>),
     Dict(<<<<"mark_iv", Num(65)>>>>),
     Dict(<<<<"status", Str(<<"ok">>)>>, <<"close", List(<<Num(1)>>)>>>>),
     Dict(<<<<"status", Str(<<"ok">>)>>, <<"close", List(<<>>)>>>>),
     Dict(<<<<"status", Str(<<"no_data">>)>>>>),
     Dict(<<<<"trades", List(<<Dict(<<<<"price", Num(1)>>>>)>>)>>>>),
     Dict(<<<<"trades", None>>>>),
     Dict(<<<<"settlements", List(<<>>)>>>>),
     Dict(<<<<"settlements", None>>>>),
     Dict(<<<<"settlements", List(<<Dict(<<<<"index_price", Num(100)>>>>)>>)>>>>),
     Dict(<<<<"settlements", List(<<Settlement(OneHourMs), Settlement(OneHourMs - 1)>>)>>>>)}

\* decoded bodies: an array, an object without `result`, objects with it
Bodies ==
    {List(<<>>), Dict(<<>>)} \cup {Dict(<<<<"result", r>>>>) : r \in Results}

HttpOutcomes ==
    {NoResponse, Response(500, Dict(<<>>)), Response(200, Malformed)}
    \cup {Response(200, b) : b \in Bodies}

ClientCalls ==
    [op : {"fetch_historical_prices"}, instrument : ClientInstruments,
     date_str : DateStrings, http : HttpOutcomes]
    \cup [op : {"get_instruments"}, currency : Currencies,
          expired : BOOLEAN, http : HttpOutcomes]
    \cup [op : {"get_ticker", "get_order_book"},
          instrument : ClientInstruments, http : HttpOutcomes]
    \cup [op : {"get_index_price"}, currency : Currencies, http : HttpOutcomes]
    \cup [op : {"get_last_settlements_by_currency",
                "get_last_trades_by_currency", "get_historical_index_price"},
          currency : Currencies, timestamp : Timestamps, http : HttpOutcomes]
    \cup [op : {"get_last_trades_by_instrument"},
          instrument : ClientInstruments, timestamp : Timestamps,
          http : HttpOutcomes]

InitClient ==
    /\ clock = ClockInstants[1]
    /\ args \in ClientCalls
    /\ out = Pending
    /\ prev = Pending
    /\ batch = NoBatch

FetchHistoricalPrices ==
    /\ out = Pending
    /\ args.op = "fetch_historical_prices"
    /\ out' = [kind |-> "done",
               ret |-> fetch_historical_prices(args.instrument, args.date_str, args.http)]
    /\ UNCHANGED <<clock, args, prev, batch>>

GetInstruments ==
    /\ out = Pending
    /\ args.op = "get_instruments"
    /\ out' = [kind |-> "done",
               ret |-> get_instruments(args.currency, args.expired, args.http)]
    /\ UNCHANGED <<clock, args, prev, batch>>

GetTicker ==
    /\ out = Pending
    /\ args.op = "get_ticker"
    /\ out' = [kind |-> "done",
               ret |-> get_ticker(args.instrument, args.http)]
    /\ UNCHANGED <<clock, args, prev, batch>>

GetIndexPrice ==
    /\ out = Pending
    /\ args.op = "get_index_price"
    /\ out' = [kind |-> "done",
               ret |-> get_index_price(args.currency, args.http)]
    /\ UNCHANGED <<clock, args, prev, batch>>

GetLastSettlementsByCurrency ==
    /\ out = Pending
    /\ args.op = "get_last_settlements_by_currency"
    /\ out' = [kind |-> "done",
               ret |-> get_last_settlements_by_currency(args.currency, args.timestamp,
                                                 Num(20), args.http)]
    /\ UNCHANGED <<clock, args, prev, batch>>

GetOrderBook ==
    /\ out = Pending
    /\ args.op = "get_order_book"
    /\ out' = [kind |-> "done",
               ret |-> get_order_book(args.instrument, Num(1), args.http)]
    /\ UNCHANGED <<clock, args, prev, batch>>

GetLastTradesByInstrument ==
    /\ out = Pending
    /\ args.op = "get_last_trades_by_instrument"
    /\ out' = [kind |-> "done",
               ret |-> get_last_trades_by_instrument(args.instrument, args.timestamp,
                                              args.timestamp, Num(100),
                                              args.http)]
    /\ UNCHANGED <<clock, args, prev, batch>>

GetLastTradesByCurrency ==
    /\ out = Pending
    /\ args.op = "get_last_trades_by_currency"
    /\ out' = [kind |-> "done",
               ret |-> get_last_trades_by_currency(args.currency, args.timestamp,
                                            args.timestamp, Num(100),
                                            args.http)]
    /\ UNCHANGED <<clock, args, prev, batch>>

GetHistoricalIndexPrice ==
    /\ out = Pending
    /\ args.op = "get_historical_index_price"
    /\ out' = [kind |-> "done",
               ret |-> get_historical_index_price(args.currency, args.timestamp, args.http)]
    /\ UNCHANGED <<clock, args, prev, batch>>

NextClient ==
    \/ FetchHistoricalPrices
    \/ GetInstruments
    \/ GetTicker
    \/ GetIndexPrice
    \/ GetLastSettlementsByCurrency
    \/ GetOrderBook
    \/ GetLastTradesByInstrument
    \/ GetLastTradesByCurrency
    \/ GetHistoricalIndexPrice

SpecClient == InitClient /\ [][NextClient]_vars

(***************************************************************************)
(* main.py: get_current_options_data and snapshot_market.  The body of one *)
(* pass of the loop, on the name, on what get_ticker returned and on the   *)
(* time of the pass: Return(Skipped) for `continue`, Return(row), or       *)
(* Raise(exception).                                                       *)
(***************************************************************************)
Skipped == [t |-> "continue"]

\* ticker.get('stats', {}).get(key, 0)
Stats(ticker, key) ==
    GetMethod(GetMethod(ticker, "stats", Dict(<<>>)), key, Num(0))

\* parts[n] if len(parts) >= n + 1 else None (n counted from 0)
PartOrNone(parts, n) == IF Len(parts) >= n + 1 THEN Str(parts[n + 1]) ELSE None

\* lines 31-54
current_pass(name, spot_price, ticker, utcnow, bld) ==
    LET iv == GetMethod(ticker, "mark_iv", None)
        volume_usd == Stats(ticker, "volume_usd")
        greeks == calculate_greeks(name, spot_price, iv, None, utcnow, bld).ret
    IN IF ~Truthy(ticker) THEN Return(Skipped)
       ELSE IF Raised(iv) THEN Raise(iv)
       ELSE IF Raised(volume_usd) THEN Raise(volume_usd)
       ELSE IF greeks.kind = "raise" THEN greeks
       ELSE Return(greeks.value @@
              [instrument |-> name,
               mark_price |-> GetMethod(ticker, "mark_price", None),
               bid |-> GetMethod(ticker, "best_bid_price", Num(0)),
               ask |-> GetMethod(ticker, "best_ask_price", Num(0)),
               volume_usd |-> volume_usd,
               open_interest |-> GetMethod(ticker, "open_interest", Num(0)),
               iv |-> iv,
               spot_price |-> spot_price])

\* lines 239-281
snapshot_pass(name, spot_price, ticker, utcnow, bld) ==
    LET parts == Split(name.s)
        iv == GetMethod(ticker, "mark_iv", None)
        volume_usd == Stats(ticker, "volume_usd")
        volume == Stats(ticker, "volume")
        greeks == calculate_greeks(name, spot_price, iv, None, utcnow, bld).ret
    IN IF ~Truthy(ticker) THEN Return(Skipped)
       ELSE IF Raised(iv) THEN Raise(iv)
       ELSE IF Raised(volume_usd) THEN Raise(volume_usd)
       ELSE IF Raised(volume) THEN Raise(volume)
       ELSE IF greeks.kind = "raise" THEN greeks
       ELSE Return(greeks.value @@
              [instrument |-> name,
               expiry |-> PartOrNone(parts, 1),
               strike |-> PartOrNone(parts, 2),
               type |-> PartOrNone(parts, 3),
               mark_price |-> GetMethod(ticker, "mark_price", None),
               last_price |-> GetMethod(ticker, "last_price", Num(0)),
               bid |-> GetMethod(ticker, "best_bid_price", Num(0)),
               ask |-> GetMethod(ticker, "best_ask_price", Num(0)),
               bid_size |-> GetMethod(ticker, "best_bid_amount", Num(0)),
               ask_size |-> GetMethod(ticker, "best_ask_amount", Num(0)),
               volume |-> volume,
               volume_usd |-> volume_usd,
               open_interest |-> GetMethod(ticker, "open_interest", Num(0)),
               iv |-> iv,
               spot_price |-> spot_price,
               underlying_price |-> GetMethod(ticker, "underlying_price", None)])

\* names[:limit]
Slice(names, limit) ==
    IF limit = None THEN names
    ELSE IF limit.v >= 0
    THEN SubSeq(names, 1, IF limit.v < Len(names) THEN limit.v ELSE Len(names))
    ELSE SubSeq(names, 1, IF Len(names) + limit.v > 0
                          THEN Len(names) + limit.v ELSE 0)

\* get_current_options_data, lines 26-27: min(limit, len(names)) is printed,
\* then names = names[:limit]
current_names(names, limit) ==
    IF limit = None
    THEN Raise(Exception("TypeError", "'<' not supported with NoneType"))
    ELSE Return(Slice(names, limit))

\* snapshot_market, lines 232-233: if limit: names = names[:limit]
snapshot_names(names, limit) ==
    Return(IF Truthy(limit) THEN Slice(names, limit) ELSE names)

\* f"{spot_price:,.2f}" is printed
FormatSpot(spot_price) ==
    IF spot_price.t = "float" THEN Return(spot_price)
    ELSE Raise(Exception("TypeError", "unsupported format string"))

(***************************************************************************)
(* One run of a batch function: its arguments are drawn at the start, the  *)
(* network's answers as the requests are made.                             *)
(***************************************************************************)
MaxNames == 2

BatchFunctions == {"get_current_options_data", "snapshot_market"}

Limits == {None} \cup {Num(k) : k \in 0..MaxNames}

BatchCalls ==
    [op : BatchFunctions, currency : {Str(<<"BTC">>)}, limit : Limits,
     build : Builds]

\* a live option, one that expires while the batch runs, a name of one
\* field, and a name whose strike is no number
ListedNames ==
    {Str(Join(<<<<"BTC">>, <<"27MAR26">>, <<"100">>, <<"C">>>>)),
     Str(Join(<<<<"BTC">>, <<"26MAR26">>, <<"100">>, <<"P">>>>)),
     Str(Join(<<<<"BTC">>>>)),
     Str(Join(<<<<"BTC">>, <<"27MAR26">>, <<"abc">>, <<"C">>>>))}

SpotOutcomes ==
    {NoResponse,
     Response(200, Dict(<<<<"result", Dict(<<<<"index_price", Num(0)>>>>)>>>>)),
     Response(200, Dict(<<<<"result", Dict(<<<<"index_price", Num(100)>>>>)>>>>))}

\* the body that lists the names l
NamesBody(l) ==
    Dict(<<<<"result",
            List([i \in 1..Len(l) |-> Dict(<<<<"instrument_name", l[i]>>>>)])>>>>)

NamesOutcomes ==
    {NoResponse}
    \cup UNION {{Response(200, NamesBody(l)) : l \in [1..n -> ListedNames]} :
                n \in 0..MaxNames}

Tickers ==
    {Dict(<<>>),
     Dict(<<<<"mark_price", Num(1)>>>>),
     Dict(<<<<"mark_iv", Num(65)>>, <<"mark_price", Num(1)>>,
            <<"stats", Dict(<<<<"volume_usd", Num(5)>>>>)>>>>)}

TickerOutcomes ==
    {NoResponse} \cup {Response(200, Dict(<<<<"result", t>>>>)) : t \in Tickers}

InitBatch ==
    /\ clock = ClockInstants[1]
    /\ args \in BatchCalls
    /\ out = Pending
    /\ prev = Pending
    /\ batch = [pc |-> "spot", spot_price |-> None, listed |-> <<>>,
                names |-> <<>>, i |-> 0, results |-> <<>>, tickers |-> <<>>]

\* the function ends: it returns a DataFrame of rows, or raises
BatchEnd(ret, locals) ==
    /\ out' = [kind |-> "done", utcnow |-> clock, ret |-> ret]
    /\ batch' = [locals EXCEPT !.pc = "ended"]

\* lines 14-19 and 220-225
BatchSpot ==
    /\ batch.pc = "spot"
    /\ \E http \in SpotOutcomes :
          LET r == get_index_price(args.currency, http) IN
          IF r.kind = "raise" THEN BatchEnd(r, batch)
          ELSE IF ~Truthy(r.value) THEN BatchEnd(Return(List(<<>>)), batch)
          ELSE IF FormatSpot(r.value).kind = "raise"
          THEN BatchEnd(FormatSpot(r.value), batch)
          ELSE /\ batch' = [batch EXCEPT !.pc = "names", !.spot_price = r.value]
               /\ out' = out
    /\ UNCHANGED <<clock, args, prev>>

\* lines 21-27 and 227-235
BatchNames ==
    /\ batch.pc = "names"
    /\ \E http \in NamesOutcomes :
          LET r == get_instruments(args.currency, FALSE, http)
              selected == IF args.op = "get_current_options_data"
                          THEN current_names(r.value.l, args.limit)
                          ELSE snapshot_names(r.value.l, args.limit)
          IN
          IF r.kind = "raise" THEN BatchEnd(r, batch)
          ELSE IF ~Truthy(r.value) THEN BatchEnd(Return(List(<<>>)), batch)
          ELSE IF selected.kind = "raise"
          THEN BatchEnd(selected, [batch EXCEPT !.listed = r.value.l])
          ELSE /\ batch' = [batch EXCEPT !.pc = "loop", !.listed = r.value.l,
                                         !.names = selected.value, !.i = 1]
               /\ out' = out
    /\ UNCHANGED <<clock, args, prev>>

\* one pass of the loop, lines 30-56 and 238-283
BatchVisit ==
    /\ batch.pc = "loop"
    /\ batch.i <= Len(batch.names)
    /\ \E http \in TickerOutcomes :
          LET name == batch.names[batch.i]
              ticker == get_ticker(name, http).value
              r == IF args.op = "get_current_options_data"
                   THEN current_pass(name, batch.spot_price, ticker, clock,
                                     args.build)
                   ELSE snapshot_pass(name, batch.spot_price, ticker, clock,
                                      args.build)
              visited == [batch EXCEPT !.tickers = Append(@, ticker)]
          IN
          IF r.kind = "raise" THEN BatchEnd(r, visited)
          ELSE /\ batch' = [visited EXCEPT
                               !.i = @ + 1,
                               !.results = IF r.value = Skipped THEN @
                                           ELSE Append(@, r.value)]
               /\ out' = out
    /\ UNCHANGED <<clock, args, prev>>

\* the loop is over: return pd.DataFrame(results), lines 58 and 285
BatchReturn ==
    /\ batch.pc = "loop"
    /\ batch.i > Len(batch.names)
    /\ BatchEnd(Return(List(batch.results)), batch)
    /\ UNCHANGED <<clock, args, prev>>

\* Tick: time.sleep between the passes, and the time the requests take
NextBatch == Tick \/ BatchSpot \/ BatchNames \/ BatchVisit \/ BatchReturn

SpecBatch == InitBatch /\ [][NextBatch]_vars

(***************************************************************************)
(* C1.  calculate_greeks never lets an exception escape: every call, on    *)
(* any instrument string, spot, iv and as-of, returns a result holding     *)
(* delta, gamma, vega and theta.                                           *)
(* The code refutes it: float(parts[2]) stands outside every try.          *)
(***************************************************************************)
C1_GreeksNeverRaise ==
    GreeksDone => Returned /\ GreekKeys \subseteq DOMAIN out.ret.value

(***************************************************************************)
(* C2.  A malformed instrument string (not exactly four fields, or a       *)
(* strike field that is no number) always gets all-zero Greeks tagged with *)
(* a format or parse error, never a crash or computed values.              *)
(* The code refutes it for the non-numeric strike.                         *)
(***************************************************************************)
C2_MalformedIsTaggedError ==
    GreeksDone /\ (~HasFourFields \/ ~StrikeIsNumber)
    => /\ Returned
       /\ ZeroedWith(out.ret.value, "error")

(***************************************************************************)
(* C3.  calculate_iv_from_price never raises: every call returns None or a *)
(* volatility percentage, and returns None whenever the instrument does    *)
(* not parse or the contract is expired.                                   *)
(* The code refutes it: float(parts[2]) and option_price * spot_price      *)
(* stand outside every try.                                                *)
(***************************************************************************)
C3_IVNoneOrValue ==
    IVDone => /\ Returned
              /\ out.ret.value.t \in {"NoneType", "float", "offgrid"}
              /\ (~WellFormed \/ Lapsed => out.ret.value = None)

(***************************************************************************)
(* C4.  On a well-formed instrument, a call whose as-of instant is at or   *)
(* after the expiry instant returns all four Greeks zero tagged expired    *)
(* and nothing else, whatever iv is.                                       *)
(***************************************************************************)
C4_LapsedIsExpired ==
    GreeksDone /\ Lapsed
    => /\ Returned
       /\ ZeroedWith(out.ret.value, "expired")
       /\ out.ret.value.expired = TRUE

\* as-of exactly at the expiry instant, with a usable iv and spot
C4_Witness ==
    /\ GreeksDone /\ Lapsed /\ AsOfInstant = ExpiryInstant
    /\ args.iv = Num(65) /\ args.spot_price = Num(100)
    /\ Returned /\ ZeroedWith(out.ret.value, "expired")

C6_Library ==
    LibGreeks(out.frame.option_type.s[1], args.spot_price, out.frame.strike,
              out.frame.expiry_dt.secs - out.frame.now.secs,
              args.iv.v * 100, args.build)

C6_AllComputed ==
    /\ DOMAIN out.ret.value = GreekKeys
    /\ out.frame.now # None /\ args.iv.t = "float"
    /\ \A g \in GreekKeys : C6_Library[g].t # "exception"
    /\ out.ret.value.delta = Round(C6_Library.delta, 100)
    /\ out.ret.value.gamma = Round(C6_Library.gamma, 10)
    /\ out.ret.value.vega = Round(C6_Library.vega, 100)
    /\ out.ret.value.theta = Round(C6_Library.theta, 100)

C6_AllZeroedWithOneFlag ==
    \E f \in {"error", "expired"} : ZeroedWith(out.ret.value, f)

C6_NoPartialResults ==
    GreeksDone /\ Returned => C6_AllComputed \/ C6_AllZeroedWithOneFlag

\* a library failure in the middle of a call: zeroed, flagged, nothing kept
C6_Witness ==
    /\ GreeksDone /\ Returned /\ Live /\ args.iv = Num(10)
    /\ args.spot_price = None
    /\ ZeroedWith(out.ret.value, "error")
    /\ out.ret.value.error[1] = "Greeks calc error: "

(***************************************************************************)
(* C7.  For a well-formed identifier UNDERLYING-DDMMMYY-STRIKE-CLASS both  *)
(* functions parse exactly the encoded values: the strike is the number in *)
(* the third field, the expiry instant is 08:00:00 on the date in the      *)
(* second field, and the class is call if and only if the fourth field is  *)
(* exactly "C" (put for every other value, lowercase "c" included).        *)
(***************************************************************************)
C7_ParseYieldsEncoded ==
    Done /\ WellFormed
    => /\ out.frame.strike = Num(FloatValue(NameFields[3][1]))
       /\ out.frame.expiry_dt = DateTime(ExpiryInstant)
       /\ out.frame.option_type \in {Str(<<"c">>), Str(<<"p">>)}
       /\ out.frame.option_type = Str(<<"c">>) <=> NameFields[4] = <<"C">>

\* the inverse function parsing a lowercase class letter as a put
C7_Witness ==
    /\ IVDone /\ WellFormed
    /\ NameFields = <<<<"BTC">>, <<"27MAR26">>, <<"10000">>, <<"c">>>>
    /\ out.frame.option_type = Str(<<"p">>)
    /\ out.frame.strike = Num(10000)
    /\ out.frame.expiry_dt = DateTime(85 * 86400 + 28800)

(***************************************************************************)
(* C8.  The outcome of an as-of or expiry that does not parse: zeroed      *)
(* Greeks tagged with a date parse error, or None from the inverse.        *)
(***************************************************************************)
DateErrorOutcome ==
    /\ Returned
    /\ IF args.op = "calculate_greeks"
       THEN /\ ZeroedWith(out.ret.value, "error")
            /\ out.ret.value.error[1] = "Date parse error: "
       ELSE out.ret.value = None

(***************************************************************************)
(* C8.  An as-of string that parses neither as a date nor as a date and    *)
(* time yields the date parse error outcome (for a well-formed instrument; *)
(* the empty string is such a string).                                     *)
(***************************************************************************)
C8_UnparseableAsOfIsDateError ==
    Done /\ WellFormed /\ args.snapshot_date_str.t = "str"
         /\ ~AsOfIsDate /\ ~AsOfIsDateTime
    => DateErrorOutcome

(***************************************************************************)
(* C9.  The round trip.  The rows are the forward prices that the call's   *)
(* option price is: black_scholes at some volatility for the call's        *)
(* instrument, spot 100 and time to expiry, divided by the spot.           *)
(***************************************************************************)
C9_Flag == IF NameFields[4] = <<"C">> THEN "c" ELSE "p"
C9_Strike == FloatValue(NameFields[3][1])
C9_Seconds == ExpiryInstant - AsOfInstant

C9_RoundTripRows ==
    {r \in PriceTable :
        /\ r.flag = C9_Flag /\ r.K = C9_Strike /\ r.td = C9_Seconds
        /\ args.option_price = Num(PriceInUnderlying(r.price, 100))}

\* the discounted intrinsic value of the call's option, units of 1e-3
C9_Intrinsic ==
    LET ds == DiscountedStrike(C9_Strike, C9_Seconds) IN
    IF C9_Flag = "c" THEN (IF 100000 > ds THEN 100000 - ds ELSE 0)
    ELSE (IF ds > 100000 THEN ds - 100000 ELSE 0)

\* the returned percentage (units of 1e-4) is the row's volatility within
\* 1e-4 relative
C9_Recovers(r) ==
    /\ Returned /\ out.ret.value.t = "float"
    /\ LET d == out.ret.value.v - r.sigma * 100 IN
       (IF d < 0 THEN -d ELSE d) <= r.sigma \div 100

C9_LeastTimeValue(price) ==
    LET m == IF price > 100000 THEN price ELSE 100000 IN
    1 + (m - 1) \div 10000000

C10_PositiveInputs ==
    /\ Live
    /\ args.spot_price.t = "float" /\ args.spot_price.v > 0
    /\ args.iv.t = "float" /\ args.iv.v > 0

C10_IsCall == NameFields[4] = <<"C">>

CalledTwice == Done /\ prev.kind = "done"

(***************************************************************************)
(* C11.  As stated: two calls of calculate_greeks, or of                   *)
(* calculate_iv_from_price, with the same arguments return the same        *)
(* result, also when the as-of argument is left out.                       *)
(***************************************************************************)
C11_SameArgumentsSameResult ==
    CalledTwice => out.ret = prev.ret

(***************************************************************************)
(* C11, amended.  Two calls with the same arguments, the as-of argument    *)
(* being a non-empty string, return the same result (or raise the same     *)
(* exception) whatever the time of each call.                              *)
(***************************************************************************)
C11_SameResultGivenAsOf ==
    CalledTwice /\ args.snapshot_date_str.t = "str" /\ ~AsOfEmpty
    => out.ret = prev.ret

\* Greeks computed as of a date, by two calls at different times, the second
\* at the expiry instant
C11_Witness ==
    /\ CalledTwice /\ args.op = "calculate_greeks"
    /\ AsOfIsDate /\ Live
    /\ prev.utcnow # out.utcnow
    /\ out.utcnow.secs = ExpiryInstant
    /\ Returned /\ DOMAIN out.ret.value = GreekKeys
    /\ out.ret.value.delta.t = "float" /\ out.ret.value.delta.v # 0
    /\ out.ret = prev.ret

(***************************************************************************)
(* C12.  The network's answer of the call is a failure: no response, an    *)
(* error status, a body that is no JSON, or a body without `result`.       *)
(***************************************************************************)
ClientMethods ==
    {"fetch_historical_prices", "get_instruments", "get_ticker",
     "get_index_price", "get_last_settlements_by_currency", "get_order_book",
     "get_last_trades_by_instrument", "get_last_trades_by_currency",
     "get_historical_index_price"}

ClientDone == Done /\ args.op \in ClientMethods

RequestFailed ==
    \/ args.http.kind = "error"
    \/ args.http.status >= 400
    \/ args.http.body.t # "dict"
    \/ \A i \in 1..Len(args.http.body.d) : args.http.body.d[i][1] # "result"

(***************************************************************************)
(* C12.  Every data-fetch method of DeribitClient, on any arguments and    *)
(* any outcome of its request, returns and never raises; when the request  *)
(* failed it returns None or an empty list.                                *)
(* The code refutes it: statements stand before the try, and               *)
(* get_historical_index_price has no try.                                  *)
(***************************************************************************)
C12_ClientNeverRaises ==
    ClientDone
    => /\ Returned
       /\ RequestFailed => out.ret.value \in {None, List(<<>>)}

(***************************************************************************)
(* C13.  A batch function has ended after the spot price and a non-empty   *)
(* instrument list were fetched, called with a limit of at least one name  *)
(* (or, snapshot_market, with no limit).                                   *)
(***************************************************************************)
BatchEnded == Done /\ args.op \in BatchFunctions

C13_Fetched ==
    /\ Truthy(batch.spot_price)
    /\ Len(batch.listed) > 0
    /\ IF args.limit = None THEN args.op = "snapshot_market"
       ELSE args.limit.v >= 1

\* the selected names: the first `limit` of the list
C13_Selected ==
    IF args.limit = None \/ args.limit.v >= Len(batch.listed)
    THEN batch.listed
    ELSE SubSeq(batch.listed, 1, args.limit.v)

\* the visits whose ticker fetch returned data, and the k-th of them
C13_WithData == {i \in 1..Len(batch.tickers) : Truthy(batch.tickers[i])}
C13_Visit(k) ==
    CHOOSE i \in C13_WithData : Cardinality({j \in C13_WithData : j <= i}) = k

(***************************************************************************)
(* C13.  The batch continues uninterrupted: the function returns, having   *)
(* visited every selected name in list order, and its output holds exactly *)
(* one row per visited instrument whose ticker fetch returned data, each   *)
(* row with the four Greeks (zeroed and tagged when the Greeks computation *)
(* failed).                                                                *)
(* The code refutes it: a listed name whose strike field is no number      *)
(* makes calculate_greeks raise (C1), which ends the batch.                *)
(***************************************************************************)
C13_BatchContinues ==
    BatchEnded /\ C13_Fetched
    => /\ Returned
       /\ batch.names = C13_Selected
       /\ Len(batch.tickers) = Len(C13_Selected)
       /\ Len(out.ret.value.l) = Cardinality(C13_WithData)
       /\ \A k \in 1..Len(out.ret.value.l) :
             LET row == out.ret.value.l[k] IN
             /\ row.instrument = C13_Selected[C13_Visit(k)]
             /\ GreekKeys \subseteq DOMAIN row
             /\ ZeroGreeks(row) <=> Flags(row) \cap {"error", "expired"} # {}

====
